---- MODULE Spec2Model ----
(***************************************************************************)
(* Ruquest (src/main.rs): a desktop HTTP client.  The GUI thread owns the  *)
(* group list, the editing slot, the two dialogs and the in-flight flag;   *)
(* every frame (ApiTester::update) first polls the completion channel and  *)
(* then handles at most one input event.  Each Send spawns one task on the *)
(* Tokio runtime, which answers through the mpsc channel.  The groups are  *)
(* persisted in saved_groups.json.                                         *)
(***************************************************************************)
EXTENDS Naturals, Sequences, FiniteSets, TLC

VARIABLES
    groups,              \* ApiTester.groups : Vec<RequestGroup>
    current_request,     \* ApiTester.current_request : ApiRequest (the editing slot)
    is_loading,          \* ApiTester.is_loading
    new_request_dialog,  \* ApiTester.new_request_dialog : NewRequestDialog
    new_group_dialog,    \* ApiTester.new_group_dialog : NewGroupDialog
    file,                \* content of saved_groups.json (None when missing)
    tasks,               \* tasks spawned on ApiTester.runtime, in spawn order
    chan,                \* messages in flight between tx and rx
    crashed,             \* the GUI thread panicked (index out of bounds)
    disk,                \* what fs::write does: "ok", "readonly" or "full"
    inputs,              \* number of edits of the editing slot and of sends still
                         \* to come (the budget of the model)
    add_group,           \* history: the group whose "+Add API" opened the visible
                         \* New API Request dialog (1-based position now, 0 once
                         \* that group is deleted); None while the dialog is hidden
    selected_entry,      \* history: <<group, position>> (1-based, now) of the stored
                         \* request last selected into the editing slot; None when
                         \* there is none or it has been deleted
    sent_request         \* history: the value of the editing slot at the last
                         \* send_request; None once its response is received

vars == <<groups, current_request, is_loading, new_request_dialog,
          new_group_dialog, file, tasks, chan, crashed, disk, inputs,
          add_group, selected_entry, sent_request>>

(***************************************************************************)
(* Bounds of the model.                                                    *)
(***************************************************************************)
MaxGroups == 2
MaxRequests == 2
MaxHeaders == 1
MaxInputs == 1

\* Texts the user types.
GroupNameTexts == {"g"}
NameTexts == {"a"}
UrlTexts == {"", "u"}
HeaderTexts == {"k"}
BodyTexts == {"", "x"}

(***************************************************************************)
(* Option<T>: None is the empty sequence, Some(x) the one-element one.     *)
(***************************************************************************)
None == <<>>
Some(x) == <<x>>

\* ApiRequest::default() (derive(Default)): empty strings, no header, no response.
ApiRequest_default ==
    [name |-> "", url |-> "", method |-> "", headers |-> <<>>, body |-> "",
     response |-> None]

\* NewRequestDialog::default()
NewRequestDialog_default == [show |-> FALSE, name |-> "", group_index |-> None]

\* NewGroupDialog::default()
NewGroupDialog_default == [show |-> FALSE, name |-> ""]

\* ApiTester.methods, the entries of the method selector.
methods == <<"GET", "POST", "PUT", "DELETE", "PATCH">>

Range(s) == {s[i] : i \in DOMAIN s}

\* Vec::remove(idx) with a 1-based position.
RemoveAt(s, i) == [j \in 1..(Len(s) - 1) |-> IF j < i THEN s[j] ELSE s[j + 1]]

(***************************************************************************)
(* Persistence: serde's view of RequestGroup and ApiRequest.  The fields   *)
(* marked #[serde(skip)] are absent from the document and take their       *)
(* Default value on deserialization.                                       *)
(***************************************************************************)
SerializeRequest(r) ==
    [name |-> r.name, url |-> r.url, method |-> r.method,
     headers |-> r.headers, body |-> r.body]

SerializeGroup(g) ==
    [name |-> g.name,
     requests |-> [i \in 1..Len(g.requests) |-> SerializeRequest(g.requests[i])]]

\* serde_json::to_string_pretty(&self.groups)
to_string_pretty(gs) == [i \in 1..Len(gs) |-> SerializeGroup(gs[i])]

DeserializeRequest(j) ==
    [name |-> j.name, url |-> j.url, method |-> j.method,
     headers |-> j.headers, body |-> j.body, response |-> None]

\* Mutant of DeserializeGroup: a loaded group comes up expanded.
DeserializeGroup_expanded(j) ==
    [name |-> j.name,
     requests |-> [i \in 1..Len(j.requests) |-> DeserializeRequest(j.requests[i])],
     is_expanded |-> TRUE]

DeserializeGroup(j) ==
    [name |-> j.name,
     requests |-> [i \in 1..Len(j.requests) |-> DeserializeRequest(j.requests[i])],
     is_expanded |-> FALSE]

\* serde_json::from_str::<Vec<RequestGroup>>(&data).unwrap_or_default()
from_str(data) ==
    IF data.valid
    THEN [i \in 1..Len(data.doc) |-> DeserializeGroup(data.doc[i])]
    ELSE <<>>

\* A file content that does not parse as a list of groups.
Unparsable == [valid |-> FALSE, doc |-> <<>>]

\* Mutant of load_groups: a missing file yields a sample list.
load_groups_sample(f) ==
    IF f # None
    THEN from_str(f[1])
    ELSE <<[name |-> "g", requests |-> <<>>, is_expanded |-> FALSE]>>

\* ApiTester::load_groups
load_groups(f) == IF f # None THEN from_str(f[1]) ELSE <<>>

\* fs::write(path, json): replaces the content; on a read-only disk it fails
\* and leaves the file as it was; on a full disk it fails after truncating.
fs_write(f, json) ==
    CASE disk = "ok" -> Some([valid |-> TRUE, doc |-> json])
      [] disk = "readonly" -> f
      [] disk = "full" -> Some(Unparsable)

\* ApiTester::save_groups: a failed write is only logged.
save_groups(gs) == file' = fs_write(file, to_string_pretty(gs))

(***************************************************************************)
(* ApiTester::update, first statement: the non-blocking poll of the        *)
(* completion channel.  Every frame starts with it, so every GUI action    *)
(* below works on the polled values.                                       *)
(***************************************************************************)
\* Mutant of try_recv_current_request: the received response is dropped.
try_recv_current_request_dropped == current_request

try_recv_current_request ==
    IF chan # <<>>
    THEN [current_request EXCEPT !.response = Some(Head(chan))]
    ELSE current_request

\* Mutant of try_recv_is_loading: the flag is not cleared on receipt.
try_recv_is_loading_kept == is_loading

try_recv_is_loading == IF chan # <<>> THEN FALSE ELSE is_loading

try_recv_chan == IF chan # <<>> THEN Tail(chan) ELSE chan

\* The history of the last send ends with the receipt of its response.
try_recv_sent_request == IF chan # <<>> THEN None ELSE sent_request

\* The rest of a frame that spawns no task and does not panic.
Frame(ngroups, ncur, nrd, ngd, save) ==
    /\ ~crashed
    /\ groups' = ngroups
    /\ current_request' = ncur
    /\ new_request_dialog' = nrd
    /\ new_group_dialog' = ngd
    /\ is_loading' = try_recv_is_loading
    /\ chan' = try_recv_chan
    /\ UNCHANGED <<tasks, crashed, disk>>
    /\ sent_request' = try_recv_sent_request
    /\ IF save THEN save_groups(ngroups) ELSE UNCHANGED file

\* A frame without input: only the poll.
update_idle ==
    /\ Frame(groups, try_recv_current_request, new_request_dialog,
             new_group_dialog, FALSE)
    /\ UNCHANGED <<inputs, add_group, selected_entry>>

(***************************************************************************)
(* ApiTester::render_requests_panel                                        *)
(***************************************************************************)
TotalRequests(gs) ==
    LET RECURSIVE Sum(_)
        Sum(n) == IF n = 0 THEN 0 ELSE Len(gs[n].requests) + Sum(n - 1)
    IN Sum(Len(gs))

\* The history variables follow the entries they denote when a group or a
\* request is removed.
AfterGroupDelete(ag, g) ==
    IF ag = None \/ ag[1] = 0 THEN ag
    ELSE IF ag[1] = g THEN Some(0)
    ELSE IF ag[1] > g THEN Some(ag[1] - 1)
    ELSE ag

EntryAfterGroupDelete(e, g) ==
    IF e = None THEN e
    ELSE IF e[1][1] = g THEN None
    ELSE IF e[1][1] > g THEN Some(<<e[1][1] - 1, e[1][2]>>)
    ELSE e

EntryAfterRequestDelete(e, g, r) ==
    IF e = None \/ e[1][1] # g THEN e
    ELSE IF e[1][2] = r THEN None
    ELSE IF e[1][2] > r THEN Some(<<g, e[1][2] - 1>>)
    ELSE e

\* "New Group" button
NewGroup_clicked ==
    /\ Frame(groups, try_recv_current_request, new_request_dialog,
             [new_group_dialog EXCEPT !.show = TRUE], FALSE)
    /\ UNCHANGED <<inputs, add_group, selected_entry>>

\* the expand/collapse button of group g (1-based position)
is_expanded_clicked(g) ==
    /\ g \in 1..Len(groups)
    /\ Frame([groups EXCEPT ![g].is_expanded = ~groups[g].is_expanded],
             try_recv_current_request, new_request_dialog, new_group_dialog, FALSE)
    /\ UNCHANGED <<inputs, add_group, selected_entry>>

\* the delete button of group g: group_to_delete = Some(g - 1)
group_to_delete(g) ==
    /\ g \in 1..Len(groups)
    /\ Frame(RemoveAt(groups, g), try_recv_current_request, new_request_dialog,
             new_group_dialog, TRUE)
    /\ add_group' = AfterGroupDelete(add_group, g)
    /\ selected_entry' = EntryAfterGroupDelete(selected_entry, g)
    /\ UNCHANGED inputs

\* "+Add API" of group g: RequestAction::Add
RequestAction_Add(g) ==
    /\ g \in 1..Len(groups)
    /\ groups[g].is_expanded
    /\ Frame(groups, ApiRequest_default,
             [new_request_dialog EXCEPT !.show = TRUE, !.group_index = Some(g - 1)],
             new_group_dialog, FALSE)
    /\ add_group' = Some(g)
    /\ selected_entry' = None
    /\ UNCHANGED inputs

\* the button of request r of group g: RequestAction::Select(request.clone())
RequestAction_Select(g, r) ==
    /\ g \in 1..Len(groups)
    /\ groups[g].is_expanded
    /\ r \in 1..Len(groups[g].requests)
    /\ Frame(groups, groups[g].requests[r],
             [new_request_dialog EXCEPT !.group_index = Some(g - 1)],
             new_group_dialog, FALSE)
    /\ selected_entry' = Some(<<g, r>>)
    /\ UNCHANGED <<inputs, add_group>>

\* Mutant of RequestAction_Delete: the deletion also empties the editing slot.
RequestAction_Delete_clears(g, r) ==
    /\ g \in 1..Len(groups)
    /\ groups[g].is_expanded
    /\ r \in 1..Len(groups[g].requests)
    /\ Frame([groups EXCEPT ![g].requests = RemoveAt(groups[g].requests, r)],
             ApiRequest_default, new_request_dialog, new_group_dialog, TRUE)
    /\ selected_entry' = EntryAfterRequestDelete(selected_entry, g, r)
    /\ UNCHANGED <<inputs, add_group>>

\* the delete button of request r of group g: RequestAction::Delete
RequestAction_Delete(g, r) ==
    /\ g \in 1..Len(groups)
    /\ groups[g].is_expanded
    /\ r \in 1..Len(groups[g].requests)
    /\ Frame([groups EXCEPT ![g].requests = RemoveAt(groups[g].requests, r)],
             try_recv_current_request, new_request_dialog, new_group_dialog, TRUE)
    /\ selected_entry' = EntryAfterRequestDelete(selected_entry, g, r)
    /\ UNCHANGED <<inputs, add_group>>

(***************************************************************************)
(* ApiTester::render_main_panel                                            *)
(***************************************************************************)
\* Mutant of FirstNamed: the last request named n.
FirstNamed_last(reqs, n) ==
    IF \E i \in 1..Len(reqs) : reqs[i].name = n
    THEN CHOOSE i \in 1..Len(reqs) :
            /\ reqs[i].name = n
            /\ \A j \in (i + 1)..Len(reqs) : reqs[j].name # n
    ELSE 0

\* Position of the first request named n (the loop with its break), 0 if none.
FirstNamed(reqs, n) ==
    IF \E i \in 1..Len(reqs) : reqs[i].name = n
    THEN CHOOSE i \in 1..Len(reqs) :
            /\ reqs[i].name = n
            /\ \A j \in 1..(i - 1) : reqs[j].name # n
    ELSE 0

\* The request the save block overwrites: <<group, position>> (1-based), or
\* <<0, 0>> when group_index is None or out of range or no name matches.
SaveTarget(gs, cur, gi) ==
    IF gi # None /\ gi[1] < Len(gs)
    THEN LET p == FirstNamed(gs[gi[1] + 1].requests, cur.name)
         IN IF p = 0 THEN <<0, 0>> ELSE <<gi[1] + 1, p>>
    ELSE <<0, 0>>

\* The group list after the save block.
SaveBlock(gs, cur, gi) ==
    LET t == SaveTarget(gs, cur, gi)
    IN IF t[1] = 0 THEN gs ELSE [gs EXCEPT ![t[1]].requests[t[2]] = cur]

\* Mutant of SaveBlockSaves: the save block never calls save_groups.
SaveBlockSaves_never(gs, cur, gi) == FALSE

\* The save block calls save_groups exactly when it overwrote an entry.
SaveBlockSaves(gs, cur, gi) == SaveTarget(gs, cur, gi)[1] # 0

\* an entry of the method selector: selectable_value
selectable_value(m) ==
    /\ m \in Range(methods)
    /\ m # try_recv_current_request.method
    /\ inputs > 0
    /\ inputs' = inputs - 1
    /\ UNCHANGED <<add_group, selected_entry>>
    /\ Frame(groups, [try_recv_current_request EXCEPT !.method = m],
             new_request_dialog, new_group_dialog, FALSE)

\* typing in the URL field: url_changed, then the save block
url_changed(u) ==
    /\ u \in UrlTexts
    /\ u # try_recv_current_request.url
    /\ inputs > 0
    /\ inputs' = inputs - 1
    /\ UNCHANGED <<add_group, selected_entry>>
    /\ LET cur == [try_recv_current_request EXCEPT !.url = u]
           gi == new_request_dialog.group_index
       IN Frame(SaveBlock(groups, cur, gi), cur, new_request_dialog,
                new_group_dialog, SaveBlockSaves(groups, cur, gi))

\* Ctrl/Cmd+S: the save block
command_S ==
    /\ LET cur == try_recv_current_request
           gi == new_request_dialog.group_index
       IN Frame(SaveBlock(groups, cur, gi), cur, new_request_dialog,
                new_group_dialog, SaveBlockSaves(groups, cur, gi))
    /\ UNCHANGED <<inputs, add_group, selected_entry>>

(***************************************************************************)
(* ApiTester::render_headers                                               *)
(***************************************************************************)
Add_Header_clicked ==
    /\ Len(try_recv_current_request.headers) < MaxHeaders
    /\ inputs > 0
    /\ inputs' = inputs - 1
    /\ UNCHANGED <<add_group, selected_entry>>
    /\ Frame(groups,
             [try_recv_current_request EXCEPT !.headers = Append(@, <<"", "">>)],
             new_request_dialog, new_group_dialog, FALSE)

\* typing in the key (part = 1) or value (part = 2) field of header idx
header_edit(idx, part, text) ==
    /\ idx \in 1..Len(try_recv_current_request.headers)
    /\ part \in {1, 2}
    /\ text \in HeaderTexts \cup {""}
    /\ text # try_recv_current_request.headers[idx][part]
    /\ inputs > 0
    /\ inputs' = inputs - 1
    /\ UNCHANGED <<add_group, selected_entry>>
    /\ Frame(groups,
             [try_recv_current_request EXCEPT !.headers[idx][part] = text],
             new_request_dialog, new_group_dialog, FALSE)

\* the remove button of header idx: headers_to_remove
headers_to_remove(idx) ==
    /\ idx \in 1..Len(try_recv_current_request.headers)
    /\ inputs > 0
    /\ inputs' = inputs - 1
    /\ UNCHANGED <<add_group, selected_entry>>
    /\ Frame(groups,
             [try_recv_current_request EXCEPT !.headers = RemoveAt(@, idx)],
             new_request_dialog, new_group_dialog, FALSE)

\* Mutant of body_edit: a body change runs the save block, as a URL change does.
body_edit_autosave(text) ==
    /\ try_recv_current_request.method # "GET"
    /\ text \in BodyTexts
    /\ text # try_recv_current_request.body
    /\ inputs > 0
    /\ inputs' = inputs - 1
    /\ UNCHANGED <<add_group, selected_entry>>
    /\ LET cur == [try_recv_current_request EXCEPT !.body = text]
           gi == new_request_dialog.group_index
       IN Frame(SaveBlock(groups, cur, gi), cur, new_request_dialog,
                new_group_dialog, SaveBlockSaves(groups, cur, gi))

\* typing in the body field, which is shown unless the method is "GET"
body_edit(text) ==
    /\ try_recv_current_request.method # "GET"
    /\ text \in BodyTexts
    /\ text # try_recv_current_request.body
    /\ inputs > 0
    /\ inputs' = inputs - 1
    /\ UNCHANGED <<add_group, selected_entry>>
    /\ Frame(groups, [try_recv_current_request EXCEPT !.body = text],
             new_request_dialog, new_group_dialog, FALSE)

(***************************************************************************)
(* ApiTester::send_request and the task it spawns                          *)
(***************************************************************************)
\* The condition under which a click on Send calls send_request.
SendAllowed == ~try_recv_is_loading

\* The state of a freshly spawned task: the clone of the editing slot.
Spawned(req) == [req |-> req, pc |-> "start", call |-> None]

\* "Send" button
Send_clicked ==
    /\ ~crashed
    /\ current_request' = try_recv_current_request
    /\ chan' = try_recv_chan
    /\ IF SendAllowed
       THEN /\ inputs > 0
            /\ inputs' = inputs - 1
            /\ is_loading' = TRUE
            /\ tasks' = Append(tasks, Spawned(try_recv_current_request))
            /\ sent_request' = Some(try_recv_current_request)
       ELSE /\ is_loading' = try_recv_is_loading
            /\ sent_request' = try_recv_sent_request
            /\ UNCHANGED <<tasks, inputs>>
    /\ UNCHANGED <<groups, new_request_dialog, new_group_dialog, file,
                   crashed, disk, add_group, selected_entry>>

\* Mutant of tx_send: the response is dropped.
tx_send_lost(c, response) == c

\* tx.send(response): the channel after the send.
tx_send(c, response) == Append(c, response)

\* Mutant of match_method: the match ignores case for GET.
match_method_ci(m) ==
    CASE m \in {"GET", "get"} -> Some("Method::GET")
      [] m = "POST" -> Some("Method::POST")
      [] m = "PUT" -> Some("Method::PUT")
      [] m = "DELETE" -> Some("Method::DELETE")
      [] m = "PATCH" -> Some("Method::PATCH")
      [] OTHER -> None

\* match req.method.as_str()
match_method(m) ==
    CASE m = "GET" -> Some("Method::GET")
      [] m = "POST" -> Some("Method::POST")
      [] m = "PUT" -> Some("Method::PUT")
      [] m = "DELETE" -> Some("Method::DELETE")
      [] m = "PATCH" -> Some("Method::PATCH")
      [] OTHER -> None

\* The response of the invalid-method arm.
InvalidMethodResponse(m) ==
    [status |-> 0, headers |-> <<>>,
     body |-> "Error: Invalid HTTP method '" \o m \o "'", time_taken |-> "0s"]

\* What request.send().await can return: a transport error or a reply.
SendOutcomes ==
    {[ok |-> FALSE, status |-> 0, headers |-> <<>>, text |-> "connect"],
     [ok |-> TRUE, status |-> 200, headers |-> <<<<"server", "s">>>>, text |-> "ok"]}

\* Mutant of OutcomeResponse: a transport failure is reported as a reply of
\* status 500 carrying the bare error text.
OutcomeResponse_reply(o) ==
    IF o.ok
    THEN [status |-> o.status, headers |-> o.headers, body |-> o.text,
          time_taken |-> "elapsed"]
    ELSE [status |-> 500, headers |-> <<>>, body |-> o.text,
          time_taken |-> "elapsed"]

\* The response built from the outcome of request.send().await.
OutcomeResponse(o) ==
    IF o.ok
    THEN [status |-> o.status, headers |-> o.headers, body |-> o.text,
          time_taken |-> "elapsed"]
    ELSE [status |-> 0, headers |-> <<>>, body |-> "Error: " \o o.text,
          time_taken |-> "elapsed"]

(***************************************************************************)
(* The outgoing call of the task: header map and body.  The header texts   *)
(* and body texts of the model are classified by the tables below, as the  *)
(* http and serde_json parsers classify them.                              *)
(***************************************************************************)
\* Texts that are no header name (HeaderName::from_bytes fails): not a token.
NotHeaderNames == {"", "bad name"}

\* Texts that are no header value (HeaderValue::from_str fails).
NotHeaderValues == {"bad\nvalue"}

\* The lower-case form of the header names of the model.
to_ascii_lowercase(key) ==
    CASE key = "K" -> "k"
      [] key = "Content-Type" -> "content-type"
      [] OTHER -> key

\* HeaderName::from_bytes(key.as_bytes()): Ok(name), normalized to lower
\* case, or Err.
HeaderName_from_bytes(key) ==
    IF key \in NotHeaderNames THEN None ELSE Some(to_ascii_lowercase(key))

\* value.parse::<HeaderValue>(): Ok(value) or Err.
HeaderValue_parse(value) ==
    IF value \in NotHeaderValues THEN None ELSE Some(value)

\* Mutant of HeaderMap_insert: a name that is present keeps its value.
HeaderMap_insert_keep(h, name, value) ==
    [n \in DOMAIN h \cup {name} |-> IF n \in DOMAIN h THEN h[n] ELSE value]

\* HeaderMap::new() and HeaderMap::insert: a map from names to values, an
\* insert replacing the value of a name that is present.
HeaderMap_new == <<>>

HeaderMap_insert(h, name, value) ==
    [n \in DOMAIN h \cup {name} |-> IF n = name THEN value ELSE h[n]]

\* for (key, value) in req.headers { ... }
RECURSIVE for_key_value_in_req_headers(_, _)
for_key_value_in_req_headers(h, hs) ==
    IF hs = <<>> THEN h
    ELSE LET key == Head(hs)[1]
             value == Head(hs)[2]
             header_name == HeaderName_from_bytes(key)
             header_value == HeaderValue_parse(value)
         IN for_key_value_in_req_headers(
               IF key # "" /\ value # "" /\ header_name # None
                  /\ header_value # None
               THEN HeaderMap_insert(h, header_name[1], header_value[1])
               ELSE h,
               Tail(hs))

\* The header map handed to request.headers(..).
request_headers(req) ==
    for_key_value_in_req_headers(
        HeaderMap_insert(HeaderMap_new, "content-type", "application/json"),
        req.headers)

\* serde_json::from_str::<Value>(text): Ok(value) or Err; a value is written
\* here as its compact serialization, which is what request.json sends.
serde_json_from_str_Value(text) ==
    CASE text = "{\"x\": 1}" -> Some("{\"x\":1}")
      [] text = "1" -> Some("1")
      [] OTHER -> None

\* RequestBuilder::json: the serialized value as body; content-type is set
\* only when the request has none yet.
RequestBuilder_json_headers(h) ==
    IF "content-type" \in DOMAIN h
    THEN h
    ELSE HeaderMap_insert(h, "content-type", "application/json")

\* Mutant of request_body: a text that is not JSON is not sent.
request_body_strict(req) ==
    IF req.body = ""
    THEN None
    ELSE LET json == serde_json_from_str_Value(req.body)
         IN IF json # None
            THEN Some([kind |-> "json", bytes |-> json[1]])
            ELSE None

\* The body of the outgoing request: none, a JSON payload or the raw text.
request_body(req) ==
    IF req.body = ""
    THEN None
    ELSE LET json == serde_json_from_str_Value(req.body)
         IN IF json # None
            THEN Some([kind |-> "json", bytes |-> json[1]])
            ELSE Some([kind |-> "raw", bytes |-> req.body])

\* The call handed to request.send().
request_call(m, req) ==
    LET body == request_body(req)
        h == request_headers(req)
    IN [method |-> m, url |-> req.url,
        headers |-> IF body # None /\ body[1].kind = "json"
                    THEN RequestBuilder_json_headers(h) ELSE h,
        body |-> body]

\* Mutant of task_match: the task reads the editing slot when it runs instead
\* of the clone taken by send_request.
task_match_shared(i) ==
    /\ ~crashed
    /\ i \in 1..Len(tasks)
    /\ tasks[i].pc = "start"
    /\ LET m == match_method(current_request.method)
       IN IF m = None
          THEN /\ chan' = tx_send(chan, InvalidMethodResponse(current_request.method))
               /\ tasks' = RemoveAt(tasks, i)
          ELSE /\ tasks' = [tasks EXCEPT ![i].pc = "await",
                               ![i].call = Some(request_call(m[1], current_request))]
               /\ UNCHANGED chan
    /\ UNCHANGED <<groups, current_request, is_loading, new_request_dialog,
                   new_group_dialog, file, crashed, disk, inputs,
                   add_group, selected_entry, sent_request>>

\* The task up to request.send(): the method match; the invalid-method arm
\* sends its response and returns, the other arms issue the call.
task_match(i) ==
    /\ ~crashed
    /\ i \in 1..Len(tasks)
    /\ tasks[i].pc = "start"
    /\ LET t == tasks[i]
           m == match_method(t.req.method)
       IN IF m = None
          THEN /\ chan' = tx_send(chan, InvalidMethodResponse(t.req.method))
               /\ tasks' = RemoveAt(tasks, i)
          ELSE /\ tasks' = [tasks EXCEPT ![i].pc = "await",
                               ![i].call = Some(request_call(m[1], t.req))]
               /\ UNCHANGED chan
    /\ UNCHANGED <<groups, current_request, is_loading, new_request_dialog,
                   new_group_dialog, file, crashed, disk, inputs,
                   add_group, selected_entry, sent_request>>

\* request.send().await returns, the task sends its response and ends.
task_send_await(i) ==
    /\ ~crashed
    /\ i \in 1..Len(tasks)
    /\ tasks[i].pc = "await"
    /\ \E o \in SendOutcomes :
          /\ chan' = tx_send(chan, OutcomeResponse(o))
          /\ tasks' = RemoveAt(tasks, i)
    /\ UNCHANGED <<groups, current_request, is_loading, new_request_dialog,
                   new_group_dialog, file, crashed, disk, inputs,
                   add_group, selected_entry, sent_request>>

(***************************************************************************)
(* ApiTester::render_dialogs                                               *)
(***************************************************************************)
\* typing in the name field of the New Group dialog
new_group_dialog_name_edit(n) ==
    /\ new_group_dialog.show
    /\ n \in GroupNameTexts \cup {""}
    /\ n # new_group_dialog.name
    /\ Frame(groups, try_recv_current_request, new_request_dialog,
             [new_group_dialog EXCEPT !.name = n], FALSE)
    /\ UNCHANGED <<inputs, add_group, selected_entry>>

\* The group that Create pushes.
NewGroup(n) == [name |-> n, requests |-> <<>>, is_expanded |-> TRUE]

\* "Create" of the New Group dialog
new_group_dialog_Create ==
    /\ new_group_dialog.show
    /\ IF new_group_dialog.name # ""
       THEN /\ Len(groups) < MaxGroups
            /\ Frame(Append(groups, NewGroup(new_group_dialog.name)),
                     try_recv_current_request, new_request_dialog,
                     [new_group_dialog EXCEPT !.name = "", !.show = FALSE], TRUE)
       ELSE Frame(groups, try_recv_current_request, new_request_dialog,
                  new_group_dialog, FALSE)
    /\ UNCHANGED <<inputs, add_group, selected_entry>>

\* "Cancel" of the New Group dialog
new_group_dialog_Cancel ==
    /\ new_group_dialog.show
    /\ Frame(groups, try_recv_current_request, new_request_dialog,
             [new_group_dialog EXCEPT !.name = "", !.show = FALSE], FALSE)
    /\ UNCHANGED <<inputs, add_group, selected_entry>>

\* typing in the name field of the New API Request dialog
new_request_dialog_name_edit(n) ==
    /\ new_request_dialog.show
    /\ n \in NameTexts \cup {""}
    /\ n # new_request_dialog.name
    /\ Frame(groups, try_recv_current_request,
             [new_request_dialog EXCEPT !.name = n], new_group_dialog, FALSE)
    /\ UNCHANGED <<inputs, add_group, selected_entry>>

\* The dialog after Create or Cancel: name cleared, group_index None, hidden.
Closed(d) == [d EXCEPT !.name = "", !.group_index = None, !.show = FALSE]

\* self.groups[group_idx] panics when group_idx is out of bounds.
CreatePanics ==
    /\ new_request_dialog.name # ""
    /\ new_request_dialog.group_index # None
    /\ new_request_dialog.group_index[1] >= Len(groups)

\* "Create" of the New API Request dialog
new_request_dialog_Create ==
    /\ new_request_dialog.show
    /\ ~CreatePanics
    /\ IF new_request_dialog.name # ""
       THEN IF new_request_dialog.group_index # None
            THEN LET g == new_request_dialog.group_index[1] + 1
                     new_request == [try_recv_current_request EXCEPT
                                        !.name = new_request_dialog.name]
                 IN /\ TotalRequests(groups) < MaxRequests
                    /\ Frame([groups EXCEPT ![g].requests = Append(@, new_request)],
                             try_recv_current_request, Closed(new_request_dialog),
                             new_group_dialog, TRUE)
            ELSE Frame(groups, try_recv_current_request,
                       Closed(new_request_dialog), new_group_dialog, FALSE)
       ELSE Frame(groups, try_recv_current_request, new_request_dialog,
                  new_group_dialog, FALSE)
    /\ add_group' = IF new_request_dialog.name # "" THEN None ELSE add_group
    /\ UNCHANGED <<inputs, selected_entry>>

\* "Create" with a group_index that is out of bounds: the GUI thread panics.
new_request_dialog_Create_panic ==
    /\ ~crashed
    /\ new_request_dialog.show
    /\ CreatePanics
    /\ crashed' = TRUE
    /\ UNCHANGED <<groups, current_request, is_loading, new_request_dialog,
                   new_group_dialog, file, tasks, chan, disk, inputs,
                   add_group, selected_entry, sent_request>>

\* "Cancel" of the New API Request dialog
new_request_dialog_Cancel ==
    /\ new_request_dialog.show
    /\ Frame(groups, try_recv_current_request, Closed(new_request_dialog),
             new_group_dialog, FALSE)
    /\ add_group' = None
    /\ UNCHANGED <<inputs, selected_entry>>

(***************************************************************************)
(* main and ApiTester::default: the process starts (again), with whatever  *)
(* saved_groups.json holds.                                                *)
(***************************************************************************)
ApiTester_default(f) ==
    /\ groups = load_groups(f)
    /\ current_request = ApiRequest_default
    /\ is_loading = FALSE
    /\ new_request_dialog = NewRequestDialog_default
    /\ new_group_dialog = NewGroupDialog_default
    /\ tasks = <<>>
    /\ chan = <<>>

\* A file written by an earlier run: one group with one request.
StoredDoc ==
    <<[name |-> "g",
       requests |-> <<[name |-> "b", url |-> "u", method |-> "POST",
                       headers |-> <<<<"k", "k">>>>, body |-> "x"]>>]>>

\* The files the first start can find: none, an unparsable one, a stored list.
InitFiles == {None, Some(Unparsable), Some([valid |-> TRUE, doc |-> StoredDoc])}

Init ==
    /\ file \in InitFiles
    /\ ApiTester_default(file)
    /\ crashed = FALSE
    /\ disk = "ok"
    /\ inputs = MaxInputs
    /\ add_group = None
    /\ selected_entry = None
    /\ sent_request = None

\* The window is closed, or the process has panicked, and the program is
\* started again: the runtime and its tasks are gone with the old process.
main ==
    /\ groups' = load_groups(file)
    /\ current_request' = ApiRequest_default
    /\ is_loading' = FALSE
    /\ new_request_dialog' = NewRequestDialog_default
    /\ new_group_dialog' = NewGroupDialog_default
    /\ tasks' = <<>>
    /\ chan' = <<>>
    /\ crashed' = FALSE
    /\ add_group' = None
    /\ selected_entry' = None
    /\ sent_request' = None
    /\ UNCHANGED <<file, disk, inputs>>

Next ==
    \/ update_idle
    \/ NewGroup_clicked
    \/ \E g \in 1..MaxGroups : is_expanded_clicked(g)
    \/ \E g \in 1..MaxGroups : group_to_delete(g)
    \/ \E g \in 1..MaxGroups : RequestAction_Add(g)
    \/ \E g \in 1..MaxGroups, r \in 1..MaxRequests : RequestAction_Select(g, r)
    \/ \E g \in 1..MaxGroups, r \in 1..MaxRequests : RequestAction_Delete(g, r)
    \/ \E m \in Range(methods) : selectable_value(m)
    \/ \E u \in UrlTexts : url_changed(u)
    \/ command_S
    \/ Add_Header_clicked
    \/ \E idx \in 1..MaxHeaders, part \in {1, 2}, text \in HeaderTexts \cup {""} :
          header_edit(idx, part, text)
    \/ \E idx \in 1..MaxHeaders : headers_to_remove(idx)
    \/ \E text \in BodyTexts : body_edit(text)
    \/ Send_clicked
    \/ \E i \in 1..Len(tasks) : task_match(i)
    \/ \E i \in 1..Len(tasks) : task_send_await(i)
    \/ \E n \in GroupNameTexts \cup {""} : new_group_dialog_name_edit(n)
    \/ new_group_dialog_Create
    \/ new_group_dialog_Cancel
    \/ \E n \in NameTexts \cup {""} : new_request_dialog_name_edit(n)
    \/ new_request_dialog_Create
    \/ new_request_dialog_Create_panic
    \/ new_request_dialog_Cancel
    \/ main

Spec == Init /\ [][Next]_vars

(***************************************************************************)
(* The persistence layer on its own: save_groups and load_groups applied   *)
(* to group lists drawn from a bounded set, on a disk that may fail.       *)
(***************************************************************************)
SeqsUpTo(S, n) == UNION {[1..k -> S] : k \in 0..n}

\* A response as a request of the list may carry it.
StoredResponse ==
    [status |-> 200, headers |-> <<<<"server", "s">>>>, body |-> "ok",
     time_taken |-> "elapsed"]

PersistRequests ==
    {[name |-> "a", url |-> "u", method |-> "GET",
      headers |-> <<<<"k", "v">>, <<"k", "">>>>, body |-> "", response |-> None],
     [name |-> "b", url |-> "", method |-> "get",
      headers |-> <<>>, body |-> "{\"x\": 1}", response |-> Some(StoredResponse)]}

PersistGroups ==
    SeqsUpTo([name : GroupNameTexts,
              requests : SeqsUpTo(PersistRequests, MaxRequests),
              is_expanded : BOOLEAN], MaxGroups)

InitPersist ==
    /\ groups \in PersistGroups \ {<<>>}
    /\ file \in InitFiles
    /\ disk \in {"ok", "readonly", "full"}
    /\ current_request = ApiRequest_default
    /\ is_loading = FALSE
    /\ new_request_dialog = NewRequestDialog_default
    /\ new_group_dialog = NewGroupDialog_default
    /\ tasks = <<>>
    /\ chan = <<>>
    /\ crashed = FALSE
    /\ inputs = MaxInputs
    /\ add_group = None
    /\ selected_entry = None
    /\ sent_request = None

\* self.save_groups() on its own
save_groups_step ==
    /\ save_groups(groups)
    /\ UNCHANGED <<groups, current_request, is_loading, new_request_dialog,
                   new_group_dialog, tasks, chan, crashed, disk, inputs,
                   add_group, selected_entry, sent_request>>

\* The disk becomes writable, read-only or full.
disk_change(d) ==
    /\ d \in {"ok", "readonly", "full"}
    /\ d # disk
    /\ disk' = d
    /\ UNCHANGED <<groups, current_request, is_loading, new_request_dialog,
                   new_group_dialog, file, tasks, chan, crashed, inputs,
                   add_group, selected_entry, sent_request>>

NextPersist ==
    \/ save_groups_step
    \/ main
    \/ \E d \in {"ok", "readonly", "full"} : disk_change(d)

SpecPersist == InitPersist /\ [][NextPersist]_vars

(***************************************************************************)
(* The request executor on its own: one send of a request drawn from a     *)
(* bounded set that holds every method string of interest.                 *)
(***************************************************************************)
ExecMethods == Range(methods) \cup {"", "get", "FOO"}

\* Header lists: empty and non-empty keys and values, two spellings of one
\* name, the name of the default header, a text that is no header name and
\* one that is no header value.
MaxExecHeaders == 2

ExecHeaderKeys == {"", "k", "K", "Content-Type", "bad name"}

ExecHeaderValues == {"", "v", "w", "bad\nvalue"}

ExecHeaderLists ==
    SeqsUpTo(ExecHeaderKeys \X ExecHeaderValues, MaxExecHeaders)

\* Bodies: none, a text that is not JSON, a JSON document.
ExecBodies == {"", "x", "{\"x\": 1}"}

ExecRequests ==
    [name : {"a"}, url : {"u"}, method : ExecMethods,
     headers : ExecHeaderLists, body : ExecBodies, response : {None}]

InitExec ==
    /\ file = None
    /\ groups = load_groups(file)
    /\ current_request \in ExecRequests
    /\ is_loading = FALSE
    /\ new_request_dialog = NewRequestDialog_default
    /\ new_group_dialog = NewGroupDialog_default
    /\ tasks = <<>>
    /\ chan = <<>>
    /\ crashed = FALSE
    /\ disk = "ok"
    /\ inputs = MaxInputs
    /\ add_group = None
    /\ selected_entry = None
    /\ sent_request = None

NextExec ==
    \/ Send_clicked
    \/ \E i \in 1..Len(tasks) : task_match(i)
    \/ \E i \in 1..Len(tasks) : task_send_await(i)
    \/ update_idle

SpecExec == InitExec /\ [][NextExec]_vars

(***************************************************************************)
(* A request in flight: the run that finds the stored list, with a budget  *)
(* that allows a send followed by an edit or by a second send.             *)
(***************************************************************************)
MaxFlightInputs == 2

InitFlight ==
    /\ file = Some([valid |-> TRUE, doc |-> StoredDoc])
    /\ ApiTester_default(file)
    /\ crashed = FALSE
    /\ disk = "ok"
    /\ inputs = MaxFlightInputs
    /\ add_group = None
    /\ selected_entry = None
    /\ sent_request = None

NextFlight ==
    \/ update_idle
    \/ \E g \in 1..MaxGroups : is_expanded_clicked(g)
    \/ \E g \in 1..MaxGroups : group_to_delete(g)
    \/ \E g \in 1..MaxGroups : RequestAction_Add(g)
    \/ \E g \in 1..MaxGroups, r \in 1..MaxRequests : RequestAction_Select(g, r)
    \/ \E g \in 1..MaxGroups, r \in 1..MaxRequests : RequestAction_Delete(g, r)
    \/ \E m \in Range(methods) : selectable_value(m)
    \/ \E u \in UrlTexts : url_changed(u)
    \/ command_S
    \/ \E text \in BodyTexts : body_edit(text)
    \/ Send_clicked
    \/ \E i \in 1..Len(tasks) : task_match(i)
    \/ \E i \in 1..Len(tasks) : task_send_await(i)
    \/ new_request_dialog_Cancel

SpecFlight == InitFlight /\ [][NextFlight]_vars

\* The same run with the scheduling the code relies on: the Tokio runtime
\* runs the spawned task to its end, and eframe keeps calling update.
LiveFlight ==
    /\ SpecFlight
    /\ WF_vars(task_match(1))
    /\ WF_vars(task_send_await(1))
    /\ WF_vars(update_idle)

(***************************************************************************)
(* Properties                                                              *)
(***************************************************************************)
\* The group list with the transient fields at their defaults.
ResetTransient(gs) ==
    [g \in 1..Len(gs) |->
        [name |-> gs[g].name,
         requests |-> [r \in 1..Len(gs[g].requests) |->
                          [gs[g].requests[r] EXCEPT !.response = None]],
         is_expanded |-> FALSE]]

\* C1: every spawned task puts exactly one response on the channel: the step
\* that ends a task appends exactly one response, a task never ends otherwise
\* (short of the process being restarted), and nothing else appends to the
\* channel.
C1_ExactlyOneResponse ==
    [][~main =>
          /\ Len(tasks') >= Len(tasks) - 1
          /\ Len(tasks') < Len(tasks) =>
                /\ Len(chan') = Len(chan) + 1
                /\ SubSeq(chan', 1, Len(chan)) = chan
          /\ Len(chan') > Len(chan) => Len(tasks') = Len(tasks) - 1]_vars

\* A task has ended on the transport-failure path and its response waits.
C1_Witness ==
    /\ is_loading
    /\ tasks = <<>>
    /\ Len(chan) = 1
    /\ chan[1].status = 0
    /\ chan[1].time_taken = "elapsed"

C3_MethodDispatch ==
    [][\A i \in 1..Len(tasks) :
          task_match(i) =>
             LET m == tasks[i].req.method
             IN IF m \in {"GET", "POST", "PUT", "DELETE", "PATCH"}
                THEN /\ chan' = chan
                     /\ Len(tasks') = Len(tasks)
                     /\ tasks'[i].call # None
                     /\ tasks'[i].call[1].method = "Method::" \o m
                ELSE /\ tasks[i].call = None
                     /\ tasks' = RemoveAt(tasks, i)
                     /\ Len(chan') = Len(chan) + 1
                     /\ chan'[Len(chan')].status = 0
                     /\ chan'[Len(chan')].headers = <<>>
                     /\ chan'[Len(chan')].body
                           = "Error: Invalid HTTP method '" \o m \o "'"]_vars

\* The lowercase method was answered locally.
C3_Witness ==
    /\ tasks = <<>>
    /\ Len(chan) = 1
    /\ chan[1].body = "Error: Invalid HTTP method 'get'"
    /\ current_request.method = "get"

\* C4: after a save_groups whose write succeeds, load_groups returns the same
\* groups in the same order with the same names and requests, is_expanded
\* false and no response.
C4_RoundTrip ==
    [][(save_groups_step /\ disk = "ok") =>
          load_groups(file') = ResetTransient(groups)]_vars

\* Two groups, one expanded and one request carrying a response, were saved
\* and the file loads back to them without the transient fields.
C4_Witness ==
    /\ Len(groups) = 2
    /\ groups[1].is_expanded
    /\ Len(groups[2].requests) = 2
    /\ groups[2].requests[1].response # None
    /\ Len(groups[2].requests[2].headers) = 2
    /\ file # None
    /\ load_groups(file) = ResetTransient(groups)
    /\ load_groups(file) # groups

\* C5: a start neither fails nor touches the file, and it yields the empty
\* list when the file is missing or does not parse.
C5_LoadEmpty ==
    [][main =>
          /\ file' = file
          /\ ~crashed'
          /\ (file = None \/ ~file[1].valid) => groups' = <<>>]_vars

\* A start without a file has emptied the list that was in memory.
C5_Witness ==
    /\ file = None
    /\ groups = <<>>
    /\ ~crashed

\* C6: while the writes succeed, the file loads to the in-memory group list
\* without its transient fields.
C6_PersistenceConsistency ==
    disk = "ok" => load_groups(file) = ResetTransient(groups)

\* A stored request carries a response and its group is expanded, and the
\* file holds that request.
C6_Witness ==
    /\ Len(groups) = 2
    /\ groups[1].is_expanded
    /\ Len(groups[1].requests) = 1
    /\ groups[1].requests[1].response # None
    /\ file # None
    /\ file[1].valid
    /\ Len(file[1].doc) = 2

\* The request list of group g of gs2 is that of gs plus one request named n;
\* the rest of gs2 is gs.
AppendedTo(gs, gs2, g, n) ==
    /\ g \in 1..Len(gs)
    /\ Len(gs2) = Len(gs)
    /\ \A k \in 1..Len(gs) : k # g => gs2[k] = gs[k]
    /\ gs2[g].name = gs[g].name
    /\ Len(gs2[g].requests) = Len(gs[g].requests) + 1
    /\ SubSeq(gs2[g].requests, 1, Len(gs[g].requests)) = gs[g].requests
    /\ gs2[g].requests[Len(gs2[g].requests)].name = n

\* C7: both dialogs: Create with a non-empty name hides the dialog, clears the
\* name and appends one entity of that name (a new empty group, or a request
\* to the group whose "+Add API" opened the dialog); Cancel hides, clears and
\* leaves the groups; Create with an empty name changes nothing.
C7_DialogStateMachine ==
    [][/\ new_group_dialog_Create =>
             IF new_group_dialog.name # ""
             THEN /\ ~new_group_dialog'.show
                  /\ new_group_dialog'.name = ""
                  /\ Len(groups') = Len(groups) + 1
                  /\ SubSeq(groups', 1, Len(groups)) = groups
                  /\ groups'[Len(groups')].name = new_group_dialog.name
                  /\ groups'[Len(groups')].requests = <<>>
             ELSE /\ groups' = groups
                  /\ new_group_dialog' = new_group_dialog
       /\ new_group_dialog_Cancel =>
             /\ ~new_group_dialog'.show
             /\ new_group_dialog'.name = ""
             /\ groups' = groups
       /\ (new_request_dialog_Create \/ new_request_dialog_Create_panic) =>
             IF new_request_dialog.name # ""
             THEN /\ ~new_request_dialog'.show
                  /\ new_request_dialog'.name = ""
                  /\ add_group # None
                  /\ AppendedTo(groups, groups', add_group[1],
                                new_request_dialog.name)
             ELSE /\ groups' = groups
                  /\ new_request_dialog' = new_request_dialog
       /\ new_request_dialog_Cancel =>
             /\ ~new_request_dialog'.show
             /\ new_request_dialog'.name = ""
             /\ groups' = groups]_vars

\* A step that edits the editing slot without being a save trigger.
EditStep ==
    \/ \E m \in Range(methods) : selectable_value(m)
    \/ Add_Header_clicked
    \/ \E idx \in 1..MaxHeaders, part \in {1, 2}, text \in HeaderTexts \cup {""} :
          header_edit(idx, part, text)
    \/ \E idx \in 1..MaxHeaders : headers_to_remove(idx)
    \/ \E text \in BodyTexts : body_edit(text)

\* C8: a selection copies the stored entry into the editing slot and leaves
\* the stored groups and the file as they are; so does every edit of the slot
\* that is not a save trigger.
C8_EditIsolation ==
    [][/\ \A g \in 1..Len(groups) : \A r \in 1..Len(groups[g].requests) :
             RequestAction_Select(g, r) =>
                /\ current_request' = groups[g].requests[r]
                /\ groups' = groups
                /\ file' = file
       /\ EditStep => (groups' = groups /\ file' = file)]_vars

\* The selected entry is still stored as it was while the slot, edited since,
\* differs from it.
C8_Witness ==
    /\ selected_entry # None
    /\ inputs = 0
    /\ LET e == selected_entry[1]
       IN /\ groups[e[1]].requests[e[2]].name = current_request.name
          /\ groups[e[1]].requests[e[2]].body # current_request.body
          /\ load_groups(file) = ResetTransient(groups)

\* A save trigger: Ctrl/Cmd+S or a change of the URL field.
SaveTriggerStep == command_S \/ \E u \in UrlTexts : url_changed(u)

\* C9: a save trigger after a selection makes the selected stored entry equal
\* to the editing slot and writes the groups to the file.
C9_SaveTriggerOverwritesSelected ==
    [][(SaveTriggerStep /\ selected_entry # None) =>
          LET e == selected_entry[1]
          IN /\ groups'[e[1]].requests[e[2]] = current_request'
             /\ load_groups(file') = ResetTransient(groups')]_vars

\* C10: no stored request carries a response, and the file holds no response.
C10_ResponseOnlyInSlot ==
    /\ \A g \in 1..Len(groups) : \A r \in 1..Len(groups[g].requests) :
          groups[g].requests[r].response = None
    /\ (file # None /\ file[1].valid) =>
          \A g \in 1..Len(file[1].doc) : \A r \in 1..Len(file[1].doc[g].requests) :
             "response" \notin DOMAIN file[1].doc[g].requests[r]

\* The events of the requests panel, of the main panel and of the dialog are
\* enabled.
EventsEnabled ==
    /\ ENABLED update_idle
    /\ \A g \in 1..Len(groups) :
          /\ ENABLED is_expanded_clicked(g)
          /\ ENABLED group_to_delete(g)
          /\ groups[g].is_expanded =>
                /\ ENABLED RequestAction_Add(g)
                /\ \A r \in 1..Len(groups[g].requests) :
                      /\ ENABLED RequestAction_Select(g, r)
                      /\ ENABLED RequestAction_Delete(g, r)
    /\ new_request_dialog.show => ENABLED new_request_dialog_Cancel
    /\ ENABLED command_S
    /\ inputs > 0 =>
          /\ ENABLED (\E u \in UrlTexts : url_changed(u))
          /\ ENABLED (\E m \in Range(methods) : selectable_value(m))

\* C11: a request in flight is eventually answered: a frame takes the
\* response from the channel, stores it in the editing slot and clears
\* is_loading (a Send of the same frame may set it again); meanwhile the
\* select, edit, dialog and delete events stay enabled.
C11_AsyncBridgeLiveness ==
    /\ is_loading ~> (~is_loading /\ tasks = <<>> /\ chan = <<>>)
    /\ [][(chan # <<>> /\ Len(chan') < Len(chan)) =>
             /\ chan' = Tail(chan)
             /\ is_loading' => Send_clicked
             /\ update_idle =>
                   /\ ~is_loading'
                   /\ current_request'
                         = [current_request EXCEPT !.response = Some(Head(chan))]]_vars
    /\ [](is_loading => EventsEnabled)

\* The response of a send has been received after the slot was edited while
\* the request was in flight.
C11_Witness ==
    /\ ~is_loading
    /\ tasks = <<>>
    /\ chan = <<>>
    /\ inputs = 0
    /\ sent_request = None
    /\ current_request.response # None
    /\ current_request.response[1].status = 200
    /\ current_request.body = ""
    /\ selected_entry # None

\* The bodies of the responses to a transport failure.
ErrorBodies == {"Error: " \o o.text : o \in {x \in SendOutcomes : ~x.ok}}

\* The replies a server can give.
ReplyStatuses == {o.status : o \in {x \in SendOutcomes : x.ok}}

\* A click on Send that spawns a task.
SendSpawns == Send_clicked /\ Len(tasks') = Len(tasks) + 1

Applied(hs, j) ==
    /\ hs[j][1] # ""
    /\ hs[j][2] # ""
    /\ HeaderName_from_bytes(hs[j][1]) # None
    /\ HeaderValue_parse(hs[j][2]) # None

\* The applied pairs of hs whose name is n.
AppliedFor(hs, n) ==
    {j \in 1..Len(hs) : Applied(hs, j) /\ HeaderName_from_bytes(hs[j][1]) = Some(n)}

Last(J) == CHOOSE j \in J : \A k \in J : k <= j

\* C13: the outgoing header map holds, for every name, the value of the last
\* applied user pair of that name; content-type is application/json when no
\* applied pair names it; no other name is present.  A pair is applied unless
\* its key or value is empty or not encodable, whatever the pairs before it.
C13_OutgoingHeaders ==
    [][\A i \in 1..Len(tasks) :
          (task_match(i) /\ match_method(tasks[i].req.method) # None) =>
             LET hs == tasks[i].req.headers
                 out == tasks'[i].call[1].headers
                 names == {"content-type"} \cup
                          {HeaderName_from_bytes(hs[j][1])[1] :
                              j \in {k \in 1..Len(hs) : Applied(hs, k)}}
             IN /\ DOMAIN out = names
                /\ \A n \in names :
                      IF AppliedFor(hs, n) # {}
                      THEN out[n] = hs[Last(AppliedFor(hs, n))][2]
                      ELSE out[n] = "application/json"]_vars

\* A pair that is not encodable was skipped and the pair after it replaced
\* the default content-type.
C13_Witness ==
    /\ Len(tasks) = 1
    /\ tasks[1].pc = "await"
    /\ tasks[1].req.headers = <<<<"bad name", "v">>, <<"Content-Type", "w">>>>
    /\ tasks[1].call[1].headers = [n \in {"content-type"} |-> "w"]

\* C14: with a valid method, of any kind, an empty body text sends no body, a
\* text that parses as JSON is sent as JSON payload and any other text is sent
\* as it is; none of the three ends the task.
C14_BodyPolicy ==
    [][\A i \in 1..Len(tasks) :
          (task_match(i) /\ tasks[i].req.method \in Range(methods)) =>
             LET text == tasks[i].req.body
                 sent == tasks'[i].call[1].body
             IN /\ Len(tasks') = Len(tasks)
                /\ tasks'[i].pc = "await"
                /\ chan' = chan
                /\ text = "" => sent = None
                /\ (text # "" /\ serde_json_from_str_Value(text) # None) =>
                      (sent # None /\ sent[1].kind = "json")
                /\ (text # "" /\ serde_json_from_str_Value(text) = None) =>
                      sent = Some([kind |-> "raw", bytes |-> text])]_vars

\* A GET request goes out with a raw text body.
C14_Witness ==
    /\ Len(tasks) = 1
    /\ tasks[1].pc = "await"
    /\ tasks[1].req.method = "GET"
    /\ tasks[1].call[1].method = "Method::GET"
    /\ tasks[1].call[1].body = Some([kind |-> "raw", bytes |-> "x"])

\* A step of a spawned task.
TaskStep == \E i \in 1..Len(tasks) : task_match(i) \/ task_send_await(i)

\* The fields of a request that go into the outgoing call.
CallFields(r) ==
    [url |-> r.url, method |-> r.method, headers |-> r.headers, body |-> r.body]

\* C15: the task works on the value the editing slot had at send_request:
\* its request, the call it issues and the response it sends follow from that
\* value whatever the GUI thread did since; events of the GUI thread leave the
\* running task as it is, and a step of the task changes nothing but the task
\* and the channel, to which it adds at most one response.
C15_SnapshotIsolation ==
    /\ [](\A i \in 1..Len(tasks) :
             /\ sent_request # None
             /\ tasks[i].req = sent_request[1]
             /\ tasks[i].call # None =>
                   /\ match_method(sent_request[1].method) = Some(tasks[i].call[1].method)
                   /\ tasks[i].call[1].url = sent_request[1].url
                   /\ tasks[i].call[1].headers = request_headers(sent_request[1])
                   /\ tasks[i].call[1].body = request_body(sent_request[1]))
    /\ []((chan # <<>> /\ sent_request # None
           /\ match_method(sent_request[1].method) = None) =>
             chan[1] = InvalidMethodResponse(sent_request[1].method))
    /\ [][/\ TaskStep =>
                /\ UNCHANGED <<groups, current_request, is_loading,
                               new_request_dialog, new_group_dialog, file, crashed>>
                /\ Len(chan') <= Len(chan) + 1
                /\ SubSeq(chan', 1, Len(chan)) = chan
          /\ ~TaskStep =>
                \A i \in 1..Len(tasks) : i <= Len(tasks') /\ tasks'[i] = tasks[i]]_vars

\* The task has issued the call of the request that was sent although the
\* slot was edited after the send.
C15_Witness ==
    /\ Len(tasks) = 1
    /\ tasks[1].pc = "await"
    /\ tasks[1].call[1].url = "u"
    /\ tasks[1].call[1].method = "Method::POST"
    /\ current_request.name = "b"
    /\ current_request.url = ""
    /\ sent_request # None
    /\ CallFields(sent_request[1]) # CallFields(current_request)
    /\ inputs = 0

\* The requests of group g of gs that are named n.
Named(gs, g, n) == {r \in 1..Len(gs[g].requests) : gs[g].requests[r].name = n}

\* C16: a save trigger changes at most one stored request: with group_index
\* Some(i), i within the list, and a request of that name in group i, the
\* first such request becomes the editing slot, all else stays and the file
\* is written; otherwise neither the group list nor the file changes.
C16_SaveTriggerFrame ==
    [][SaveTriggerStep =>
          LET gi == new_request_dialog.group_index
              cur == current_request'
          IN IF /\ gi # None
                /\ gi[1] < Len(groups)
                /\ Named(groups, gi[1] + 1, cur.name) # {}
             THEN LET g == gi[1] + 1
                      first == CHOOSE r \in Named(groups, g, cur.name) :
                                  \A q \in Named(groups, g, cur.name) : r <= q
                  IN /\ Len(groups') = Len(groups)
                     /\ \A k \in 1..Len(groups) : k # g => groups'[k] = groups[k]
                     /\ groups'[g].name = groups[g].name
                     /\ groups'[g].is_expanded = groups[g].is_expanded
                     /\ Len(groups'[g].requests) = Len(groups[g].requests)
                     /\ \A r \in 1..Len(groups[g].requests) :
                           groups'[g].requests[r]
                              = IF r = first THEN cur ELSE groups[g].requests[r]
                     /\ file' = Some([valid |-> TRUE, doc |-> to_string_pretty(groups')])
             ELSE groups' = groups /\ file' = file]_vars

\* Of two requests of one name the second was selected and edited, and the
\* save trigger overwrote the first.
C16_Witness ==
    /\ Len(groups) = 1
    /\ Len(groups[1].requests) = 2
    /\ groups[1].requests[1].name = groups[1].requests[2].name
    /\ groups[1].requests[1].url = "u"
    /\ groups[1].requests[2].url = ""
    /\ current_request = groups[1].requests[1]
    /\ selected_entry = Some(<<1, 2>>)
    /\ load_groups(file) = ResetTransient(groups)
    /\ inputs = 0

\* The fields that identify a request for the user.
RequestFields(r) ==
    [name |-> r.name, url |-> r.url, method |-> r.method,
     headers |-> r.headers, body |-> r.body]

\* C17: when a frame stores a received response in the editing slot, the slot
\* holds the request whose snapshot was sent.
C17_ResponseAttribution ==
    [][(chan # <<>> /\ Len(chan') < Len(chan) /\ sent_request # None) =>
          RequestFields(current_request) = RequestFields(sent_request[1])]_vars

\* C18: no access is out of bounds, and while the New API Request dialog is
\* visible group_index denotes an existing group, the one whose "+Add API"
\* opened the dialog.
C18_IndexSafety ==
    /\ ~crashed
    /\ new_request_dialog.show =>
          /\ new_request_dialog.group_index # None
          /\ new_request_dialog.group_index[1] < Len(groups)
          /\ add_group = Some(new_request_dialog.group_index[1] + 1)

\* What a frame that handles an event outside the main panel leaves of the
\* editing slot, of is_loading and of the task: all but the effect of its poll.
SlotAndFlightKept ==
    /\ tasks' = tasks
    /\ IF chan = <<>>
       THEN /\ current_request' = current_request
            /\ is_loading' = is_loading
            /\ chan' = chan
       ELSE /\ current_request'
                  = [current_request EXCEPT !.response = Some(Head(chan))]
            /\ ~is_loading'
            /\ chan' = Tail(chan)

\* C19: deleting request r of group g removes the entry at that position and
\* nothing else; deleting group g removes that group and nothing else; both
\* write the file and leave slot, is_loading and task as they are.
C19_Deletion ==
    [][/\ \A g \in 1..Len(groups) : \A r \in 1..Len(groups[g].requests) :
             RequestAction_Delete(g, r) =>
                /\ Len(groups') = Len(groups)
                /\ \A k \in 1..Len(groups) : k # g => groups'[k] = groups[k]
                /\ groups'[g].name = groups[g].name
                /\ groups'[g].is_expanded = groups[g].is_expanded
                /\ Len(groups'[g].requests) = Len(groups[g].requests) - 1
                /\ \A j \in 1..Len(groups'[g].requests) :
                      groups'[g].requests[j]
                         = groups[g].requests[IF j < r THEN j ELSE j + 1]
                /\ file' = Some([valid |-> TRUE, doc |-> to_string_pretty(groups')])
                /\ SlotAndFlightKept
       /\ \A g \in 1..Len(groups) :
             group_to_delete(g) =>
                /\ Len(groups') = Len(groups) - 1
                /\ \A k \in 1..Len(groups') :
                      groups'[k] = groups[IF k < g THEN k ELSE k + 1]
                /\ file' = Some([valid |-> TRUE, doc |-> to_string_pretty(groups')])
                /\ SlotAndFlightKept]_vars

\* The selected request was sent and then deleted: its group is empty in
\* memory and in the file while the slot still holds it and the task runs.
C19_Witness ==
    /\ Len(groups) = 1
    /\ groups[1].requests = <<>>
    /\ file = Some([valid |-> TRUE,
                    doc |-> <<[name |-> "g", requests |-> <<>>]>>])
    /\ current_request.name = "b"
    /\ is_loading
    /\ Len(tasks) = 1
    /\ tasks[1].req.name = "b"

====
